---- MODULE Spec2Model ----
(***************************************************************************)
(* Measurements and post-selection: the engine session of                  *)
(* tutorial/run_post_selection.ipynb.                                      *)
(*                                                                         *)
(* The notebook builds Programs over two modes and runs them on an Engine. *)
(* The model is the Engine session: the engine executes the operations of  *)
(* the program it is given one at a time, in program order; the operation  *)
(* executed next is an input, drawn from the operations the notebook uses. *)
(*                                                                         *)
(* Engine state.  A pure two-mode state is kept as a polynomial in the two *)
(* creation operators with integer coefficients, up to a global factor:    *)
(* the term c * a^j * b^k stands for the Fock component |j,k> with         *)
(* amplitude c * sqrt(j! k!).  A component is present iff its coefficient  *)
(* is non-zero, so the set of outcomes of a count measurement that have    *)
(* non-zero probability is read off exactly.  Exponents are cut at         *)
(* CutoffDim - 1 as in the Fock backend.  Modes whose state the polynomial *)
(* cannot carry (after a non-zero displacement or squeezing, or after a    *)
(* continuous measurement of a mode entangled with them) are collected in  *)
(* the set unk; count operations are modelled on tracked modes only.       *)
(***************************************************************************)
EXTENDS Integers, Sequences, FiniteSets

\* sf.Program(2)
NumModes == 2
\* backend_options={"cutoff_dim": 6}
CutoffDim == 6
\* largest count a Fock preparation loads
MaxLoad == 3
\* operations executed on one engine before it is reset or replaced
MaxOps == 5
\* the same, once the operations no longer form the two-mode count circuit
MaxFree == 3
\* grid of the continuous (quadrature) outcomes: 0..MaxCont in each component
MaxCont == 1
\* Program objects constructed in one session
MaxProgs == 2
\* operations written in one program context
MaxProgOps == 1
\* how far past the register a subscript q[i] may reach
MaxBeyond == 1

Modes == 0 .. (NumModes - 1)
Counts == 0 .. (CutoffDim - 1)
Idx == Counts \X Counts
Other(i) == 1 - i

VARIABLES
    backend,   \* "fock" or "gaussian": sf.Engine(<backend>)
    phase,     \* "idle", "running", "done", "failed"
    error,     \* "none", "zeroprob", "resolution", "type"
    poly,      \* engine state: coefficient of a^j b^k, for <<j,k>> in Idx
    unk,       \* modes whose state poly does not carry
    val,       \* per mode: the latest measured value (RegRef.val), or NoVal
    samples,   \* Results.samples of the current run: <<[mode, v]>>, mode order
    measured,  \* modes the current program has measured so far
    nops,      \* operations executed since the engine was fresh
    lastOp,    \* the operation the engine considered last
    circ,      \* the program text so far, per mode, while it has the shape
               \* Fock | q[0]; Fock | q[1]; BSgate...; MeasureFock...
    twin,      \* two fresh Fock engines given the same program (SpecTwin)
    progs      \* the Program objects built so far (SpecProg)

vars == <<backend, phase, error, poly, unk, val, samples, measured, nops, lastOp, circ, twin, progs>>

----------------------------------------------------------------------------
(* Values: measurement results are typed by the measurement's kind.        *)

NoVal == [t |-> "none", re |-> 0, im |-> 0]
IntVal(k) == [t |-> "int", re |-> k, im |-> 0]
RealVal(x) == [t |-> "real", re |-> x, im |-> 0]
CplxVal(x, y) == [t |-> "complex", re |-> x, im |-> y]

ContGrid == 0 .. MaxCont

\* the return type of each measurement
ReturnType(kind) ==
    CASE kind = "MeasureFock" -> "int"
      [] kind = "MeasureHomodyne" -> "real"
      [] kind = "MeasureHeterodyne" -> "complex"

\* the outcomes a continuous measurement can return (on the grid)
ContOutcomes(kind) ==
    IF ReturnType(kind) = "real"
    THEN {RealVal(x) : x \in ContGrid}
    ELSE {CplxVal(x, y) : x \in ContGrid, y \in ContGrid}

\* classical processing of a measured value inside a gate argument:
\* q[r].par ("id") and q[r].par ** 2 ("sq")
Processed(fn, v) ==
    IF fn = "sq"
    THEN [t |-> v.t, re |-> v.re * v.re - v.im * v.im, im |-> 2 * v.re * v.im]
    ELSE v

IsZero(v) == v.re = 0 /\ v.im = 0

----------------------------------------------------------------------------
(* Polynomials: a function from the exponent pairs of its terms to their   *)
(* non-zero coefficients.                                                  *)

Monomial(j, k) == [e \in {<<j, k>>} |-> 1]
Vacuum == Monomial(0, 0)
Exp(e, i) == e[i + 1]
WithExp(e, i, k) == IF i = 0 THEN <<k, e[2]>> ELSE <<e[1], k>>

\* the terms of f that are not zero
Terms(f) == [e \in {x \in DOMAIN f : f[x] # 0} |-> f[e]]

RECURSIVE Binom(_, _)
Binom(n, k) ==
    IF k < 0 \/ k > n THEN 0
    ELSE IF k = 0 \/ k = n THEN 1
    ELSE Binom(n - 1, k - 1) + Binom(n - 1, k)

RECURSIVE SumOver(_, _)
SumOver(S, f) ==
    IF S = {} THEN 0
    ELSE LET x == CHOOSE y \in S : TRUE IN f[x] + SumOver(S \ {x}, f)

Sign(l) == IF l % 2 = 0 THEN 1 ELSE -1

\* coefficient of a^p b^(j+k-p) in (a + b)^j * (b - a)^k
BSCoef(j, k, p) ==
    LET I == {i \in 0 .. j : p - i >= 0 /\ p - i <= k}
    IN  SumOver(I, [i \in I |-> Binom(j, i) * Binom(k, p - i) * Sign(p - i)])

Abs(x) == IF x < 0 THEN -x ELSE x

RECURSIVE Gcd(_, _)
Gcd(a, b) == IF b = 0 THEN a ELSE Gcd(b, a % b)

RECURSIVE GcdOver(_, _)
GcdOver(S, p) ==
    IF S = {} THEN 0
    ELSE LET x == CHOOSE y \in S : TRUE IN Gcd(Abs(p[x]), GcdOver(S \ {x}, p))

\* the state is a ray: the common factor of the coefficients is dropped
Normalize(p) ==
    LET g == GcdOver(DOMAIN p, p)
    IN  IF g <= 1 THEN p ELSE [e \in DOMAIN p |-> p[e] \div g]

\* the number of photons of a component
Total(e) == e[1] + e[2]

\* BSgate() | (q[0], q[1]): the 50-50 beamsplitter BSgate(pi/4, 0),
\* a -> (a + b)/sqrt 2, b -> (b - a)/sqrt 2, cut at CutoffDim
BSPoly(p) ==
    LET E == {e \in Idx : \E f \in DOMAIN p : Total(f) = Total(e)}
        F(e) == {f \in DOMAIN p : Total(f) = Total(e)}
        full == [e \in E |->
                    SumOver(F(e), [f \in F(e) |-> p[f] * BSCoef(f[1], f[2], e[1])])]
    IN  Normalize(Terms(full))

\* the counts of mode i that have non-zero probability
Outcomes(p, i) == {Exp(e, i) : e \in DOMAIN p}

\* mode i holds one definite count in every component of p
DefiniteIn(p, i) == Cardinality(Outcomes(p, i)) <= 1

\* mutant of Collapse: mode i is reset but the other mode is not conditioned
CollapseUnconditioned(p, i, k) ==
    [e \in {WithExp(f, i, 0) : f \in DOMAIN p} |-> 1]

\* mutant of Collapse: the measured mode keeps its k photons
CollapseKeep(p, i, k) ==
    LET K == {e \in DOMAIN p : Exp(e, i) = k}
    IN  [e \in K |-> p[e]]

\* the state after mode i was found with k photons: the components with k
\* photons in mode i, and mode i reset to the vacuum
Collapse(p, i, k) ==
    LET K == {e \in DOMAIN p : Exp(e, i) = k}
    IN  Normalize([e \in {WithExp(f, i, 0) : f \in K} |-> p[WithExp(e, i, k)]])

\* Fock(n) | q[i] on a mode that holds a definite count
Prepare(p, i, n) ==
    LET m == CHOOSE k \in Outcomes(p, i) : TRUE
    IN  IF DOMAIN p = {} THEN p
        ELSE [e \in {WithExp(f, i, n) : f \in DOMAIN p} |-> p[WithExp(e, i, m)]]

----------------------------------------------------------------------------
NoOp == [kind |-> "none", mode |-> 0, arg |-> NoVal, ref |-> -1, fn |-> "none",
         status |-> "ok"]

NoCirc == [stage |-> "off", n |-> [i \in Modes |-> -1], seen |-> {},
           sel |-> [i \in Modes |-> -1]]
FreshCirc == [NoCirc EXCEPT !.stage = "prep"]

Backends == {"fock", "gaussian"}

\* an engine as the twin runs keep it: state, measured values, still running
FreshEngine == [poly |-> Vacuum, val |-> [i \in Modes |-> NoVal], ok |-> TRUE]
\* free: the modes whose latest measurement had no select argument;
\* rnd: some measurement of the program had none
FreshTwin == [a |-> FreshEngine, b |-> FreshEngine, free |-> {}, rnd |-> FALSE, n |-> 0]

\* a Program: its context not yet entered ("none"), entered ("open"), left
\* ("built") or left by an error ("failed"); its operations in order, each
\* [kind, modes] with modes the subscripts it is applied to; whether an
\* engine has run it; raised: the subscripts outside the register of the
\* operation that stopped its construction
NoProg == [state |-> "none", ops |-> <<>>, raised |-> {}, ran |-> FALSE]

NoProgs == [p \in 1 .. MaxProgs |-> NoProg]

Init ==
    /\ backend \in Backends
    /\ phase = "idle"
    /\ error = "none"
    /\ poly = Vacuum
    /\ unk = {}
    /\ val = [i \in Modes |-> NoVal]
    /\ samples = <<>>
    /\ measured = {}
    /\ nops = 0
    /\ lastOp = NoOp
    /\ circ = FreshCirc
    /\ twin = FreshTwin
    /\ progs = NoProgs

----------------------------------------------------------------------------
(* The program text per mode, kept while the operations executed on this   *)
(* engine have the shape of the notebook's two-mode circuit: a Fock        *)
(* preparation of each mode, beamsplitters, then one count measurement per *)
(* mode.  n[i] is the count loaded into mode i, sel[i] the select argument *)
(* of its measurement (-1: none), seen the modes measured after the        *)
(* beamsplitter.                                                           *)

CircFock(c, i, n) ==
    IF c.stage = "prep" /\ c.n[i] = -1 THEN [c EXCEPT !.n[i] = n] ELSE NoCirc

CircBS(c) ==
    IF c.stage \in {"prep", "mixed"} /\ c.seen = {} /\ \A i \in Modes : c.n[i] # -1
    THEN [c EXCEPT !.stage = "mixed"]
    ELSE NoCirc

CircMeasure(c, i, s) ==
    IF c.stage = "mixed" /\ i \notin c.seen
    THEN [c EXCEPT !.seen = @ \cup {i}, !.sel[i] = s]
    ELSE NoCirc

----------------------------------------------------------------------------
(* Results.samples: one entry per measured mode, in mode-index order.      *)

\* mutant of Record: entries are kept in measurement order
RecordAppend(s, i, v) ==
    LET NotI(x) == x.mode # i
    IN  Append(SelectSeq(s, NotI), [mode |-> i, v |-> v])

Record(s, i, v) ==
    LET Before(x) == x.mode < i
        After(x) == x.mode > i
    IN  SelectSeq(s, Before) \o <<[mode |-> i, v |-> v]>> \o SelectSeq(s, After)

SampleModes(s) == {s[x].mode : x \in DOMAIN s}

----------------------------------------------------------------------------
(* Engine session.                                                         *)

Fresh(b) ==
    /\ backend' = b
    /\ phase' = "idle"
    /\ error' = "none"
    /\ poly' = Vacuum
    /\ unk' = {}
    /\ val' = [i \in Modes |-> NoVal]
    /\ samples' = <<>>
    /\ measured' = {}
    /\ nops' = 0
    /\ lastOp' = NoOp
    /\ circ' = FreshCirc
    /\ UNCHANGED <<twin, progs>>

\* eng = sf.Engine(b, ...)
NewEngine(b) ==
    /\ phase \in {"idle", "done", "failed"}
    /\ Fresh(b)

\* eng.reset()
Reset ==
    /\ phase \in {"idle", "done", "failed"}
    /\ Fresh(backend)

\* mutant of BeginRun: every run starts from the vacuum
BeginRunFromVacuum ==
    /\ phase \in {"idle", "done"}
    /\ phase' = "running"
    /\ samples' = <<>>
    /\ measured' = {}
    /\ poly' = Vacuum
    /\ unk' = {}
    /\ UNCHANGED <<twin, progs, backend, error, val, nops, lastOp, circ>>

\* results = eng.run(prog): the run starts from the state the engine is in
BeginRun ==
    /\ phase \in {"idle", "done"}
    /\ phase' = "running"
    /\ samples' = <<>>
    /\ measured' = {}
    /\ UNCHANGED <<twin, progs, backend, error, poly, unk, val, nops, lastOp, circ>>

\* eng.run returns the Results
EndRun ==
    /\ phase = "running"
    /\ lastOp.status # "resolved"
    /\ phase' = "done"
    /\ UNCHANGED <<twin, progs, backend, error, poly, unk, val, samples, measured, nops, lastOp, circ>>

\* the engine takes the next operation of the program
CanOp ==
    /\ phase = "running"
    /\ lastOp.status # "resolved"
    /\ nops < MaxOps
    /\ circ.stage = "off" => nops < MaxFree

Op(kind, i, arg) ==
    [kind |-> kind, mode |-> i, arg |-> arg, ref |-> -1, fn |-> "none", status |-> "ok"]

\* the run stops with an error: no Results, the engine state is left as it is
Fail(op, err) ==
    /\ phase' = "failed"
    /\ error' = err
    /\ lastOp' = [op EXCEPT !.status = "failed"]
    /\ nops' = nops + 1
    /\ UNCHANGED <<twin, progs, backend, poly, unk, val, samples, measured, circ>>

\* Fock(n) | q[i]
OpFock(n, i) ==
    /\ CanOp
    /\ backend = "fock"
    /\ n < CutoffDim
    /\ i \in unk \/ DefiniteIn(poly, i)
    /\ poly' = Prepare(poly, i, n)
    /\ unk' = unk \ {i}
    /\ lastOp' = Op("Fock", i, IntVal(n))
    /\ circ' = CircFock(circ, i, n)
    /\ nops' = nops + 1
    /\ UNCHANGED <<twin, progs, backend, phase, error, val, samples, measured>>

\* BSgate() | (q[0], q[1])
OpBS ==
    /\ CanOp
    /\ IF unk = {}
       THEN poly' = BSPoly(poly) /\ unk' = unk
       ELSE poly' = Vacuum /\ unk' = Modes
    /\ lastOp' = Op("BSgate", 0, NoVal)
    /\ circ' = CircBS(circ)
    /\ nops' = nops + 1
    /\ UNCHANGED <<twin, progs, backend, phase, error, val, samples, measured>>

\* a measurement of mode i has returned v: v is recorded, for the program
\* (q[i].par) and in the Results
Recorded(i, v) ==
    /\ val' = [val EXCEPT ![i] = v]
    /\ samples' = Record(samples, i, v)
    /\ measured' = measured \cup {i}

\* a count measurement of mode i gives k
FockOutcome(i, k, s) ==
    /\ poly' = Collapse(poly, i, k)
    /\ Recorded(i, IntVal(k))
    /\ lastOp' = Op("MeasureFock", i, IF s = -1 THEN NoVal ELSE IntVal(s))
    /\ circ' = CircMeasure(circ, i, s)
    /\ nops' = nops + 1
    /\ UNCHANGED <<twin, progs, backend, phase, error, unk>>

CanMeasureFock(i) ==
    /\ CanOp
    /\ backend = "fock"
    /\ i \notin unk

\* MeasureFock() | q[i]: the outcome is sampled
MeasureFockSample(i) ==
    /\ CanMeasureFock(i)
    /\ \E k \in Outcomes(poly, i) : FockOutcome(i, k, -1)

\* mutant of MeasureFockSelect: the select argument is ignored
MeasureFockSelectSampled(i, s) ==
    /\ CanMeasureFock(i)
    /\ \E k \in Outcomes(poly, i) : FockOutcome(i, k, s)

\* MeasureFock(select=s) | q[i]: the state is conditioned on s
MeasureFockSelect(i, s) ==
    /\ CanMeasureFock(i)
    /\ s \in Outcomes(poly, i)
    /\ FockOutcome(i, s, s)

\* mutant of MeasureFockZeroProb: the selection is recorded without the check
MeasureFockUnchecked(i, s) ==
    /\ CanMeasureFock(i)
    /\ s \notin Outcomes(poly, i)
    /\ FockOutcome(i, s, s)

\* ZeroDivisionError: Measurement has zero probability.
MeasureFockZeroProb(i, s) ==
    /\ CanMeasureFock(i)
    /\ s \notin Outcomes(poly, i)
    /\ Fail(Op("MeasureFock", i, IntVal(s)), "zeroprob")

\* the state after a continuous measurement of mode i: mode i is reset to the
\* vacuum; a mode entangled with it is left in a state poly does not carry
ContPoly(p, u, i) ==
    IF i \in u \/ DefiniteIn(p, i) THEN Prepare(p, i, 0) ELSE Vacuum

ContUnk(p, u, i) ==
    IF i \in u \/ DefiniteIn(p, i) THEN u \ {i} ELSE {Other(i)}

\* measurements each backend supports
Supports(b, kind) ==
    CASE kind = "MeasureHomodyne" -> TRUE
      [] kind = "MeasureHeterodyne" -> b = "gaussian"
      [] kind = "MeasureFock" -> TRUE

ContOutcome(kind, i, v, s) ==
    /\ CanOp
    /\ Supports(backend, kind)
    /\ poly' = ContPoly(poly, unk, i)
    /\ unk' = ContUnk(poly, unk, i)
    /\ Recorded(i, v)
    /\ lastOp' = Op(kind, i, s)
    /\ circ' = NoCirc
    /\ nops' = nops + 1
    /\ UNCHANGED <<twin, progs, backend, phase, error>>

\* MeasureHomodyne(0) | q[i], MeasureHeterodyne() | q[i]: the outcome is sampled
MeasureContSample(kind, i) ==
    \E v \in ContOutcomes(kind) : ContOutcome(kind, i, v, NoVal)

\* MeasureHomodyne(0, select=v) | q[i]: no zero-probability check is made
MeasureContSelect(kind, i, v) ==
    ContOutcome(kind, i, v, v)

----------------------------------------------------------------------------
(* Gates whose parameter is the (processed) measured value of a mode,      *)
(* q[r].par.                                                               *)

Gates == {"Dgate", "Sgate", "S2gate", "Rgate"}
\* the gates whose parameter may be a complex number
ComplexGates == {"Dgate", "Sgate", "S2gate"}
\* gates on the pair (q[0], q[1])
TwoModeGates == {"S2gate"}

\* mutant of Accepts: every gate takes every type
AcceptsAll(g, t) == TRUE

Accepts(g, t) == t \in {"int", "real"} \/ (t = "complex" /\ g \in ComplexGates)

GateOp(g, j, fn, r, arg, st) ==
    [kind |-> g, mode |-> j, arg |-> arg, ref |-> r, fn |-> fn, status |-> st]

\* mutant of ParValue: the value of the other mode is taken
ParValueOther(r) == val[Other(r)]

\* the value q[r].par stands for
ParValue(r) == val[r]

\* G(fn(q[r].par)) | q[j]: the reference is replaced by the measured value
ResolveMeasured(g, j, fn, r) ==
    /\ CanOp
    /\ ParValue(r) # NoVal
    /\ Accepts(g, ParValue(r).t)
    /\ lastOp' = GateOp(g, j, fn, r, Processed(fn, ParValue(r)), "resolved")
    /\ nops' = nops + 1
    /\ UNCHANGED <<twin, progs, backend, phase, error, poly, unk, val, samples, measured, circ>>

\* mutant of ResolveUnmeasured: an unmeasured mode reads as 0
ResolveUnmeasuredAsZero(g, j, fn, r) ==
    /\ CanOp
    /\ ParValue(r) = NoVal
    /\ lastOp' = GateOp(g, j, fn, r, IntVal(0), "resolved")
    /\ nops' = nops + 1
    /\ UNCHANGED <<twin, progs, backend, phase, error, poly, unk, val, samples, measured, circ>>

\* q[r] has not been measured: the reference cannot be resolved
ResolveUnmeasured(g, j, fn, r) ==
    /\ CanOp
    /\ ParValue(r) = NoVal
    /\ Fail(GateOp(g, j, fn, r, NoVal, "failed"), "resolution")

\* the measured value has a type the gate does not take
ResolveMismatch(g, j, fn, r) ==
    /\ CanOp
    /\ ParValue(r) # NoVal
    /\ ~Accepts(g, ParValue(r).t)
    /\ Fail(GateOp(g, j, fn, r, NoVal, "failed"), "type")

\* the state after gate g with parameter a on mode j (S2gate: on both modes).
\* A zero parameter is the identity; a rotation changes only the phases of the
\* components; a displacement or squeezing leaves the count basis.
GatePoly(p, u, g, j, a) ==
    IF IsZero(a) \/ (g \notin TwoModeGates /\ j \in u) THEN p
    ELSE IF g \in TwoModeGates THEN Vacuum
    ELSE IF ~DefiniteIn(p, j) THEN Vacuum
    ELSE IF g = "Rgate" THEN p
    ELSE Prepare(p, j, 0)

GateUnk(p, u, g, j, a) ==
    IF IsZero(a) \/ (g \notin TwoModeGates /\ j \in u) THEN u
    ELSE IF g \in TwoModeGates THEN Modes
    ELSE IF ~DefiniteIn(p, j) THEN Modes
    ELSE IF g = "Rgate" THEN u
    ELSE u \cup {j}

\* the gate is applied with the resolved parameter
ApplyGate ==
    /\ phase = "running"
    /\ lastOp.status = "resolved"
    /\ poly' = GatePoly(poly, unk, lastOp.kind, lastOp.mode, lastOp.arg)
    /\ unk' = GateUnk(poly, unk, lastOp.kind, lastOp.mode, lastOp.arg)
    /\ lastOp' = [lastOp EXCEPT !.status = "applied"]
    /\ circ' = NoCirc
    /\ UNCHANGED <<twin, progs, backend, phase, error, val, samples, measured, nops>>

----------------------------------------------------------------------------
ContKinds == {"MeasureHomodyne", "MeasureHeterodyne"}
Fns == {"id", "sq"}
\* a two-mode gate is written on (q[0], q[1]): its mode field is 0
Targets(g) == IF g \in TwoModeGates THEN {0} ELSE Modes

Next ==
    \/ \E b \in Backends : NewEngine(b)
    \/ Reset
    \/ BeginRun
    \/ EndRun
    \/ \E n \in 0 .. MaxLoad, i \in Modes : OpFock(n, i)
    \/ OpBS
    \/ \E i \in Modes : MeasureFockSample(i)
    \/ \E i \in Modes, s \in Counts : MeasureFockSelect(i, s)
    \/ \E i \in Modes, s \in Counts : MeasureFockZeroProb(i, s)
    \/ \E kind \in ContKinds, i \in Modes : MeasureContSample(kind, i)
    \/ \E kind \in ContKinds, i \in Modes : \E v \in ContOutcomes(kind) :
            MeasureContSelect(kind, i, v)
    \/ \E g \in Gates, fn \in Fns, r \in Modes : \E j \in Targets(g) :
            ResolveMeasured(g, j, fn, r)
    \/ \E g \in Gates, fn \in Fns, r \in Modes : \E j \in Targets(g) :
            ResolveUnmeasured(g, j, fn, r)
    \/ \E g \in Gates, fn \in Fns, r \in Modes : \E j \in Targets(g) :
            ResolveMismatch(g, j, fn, r)
    \/ ApplyGate

Spec == Init /\ [][Next]_vars

\* the state stays in its domain
TypeOK ==
    /\ backend \in Backends
    /\ phase \in {"idle", "running", "done", "failed"}
    /\ error \in {"none", "zeroprob", "resolution", "type"}
    /\ DOMAIN poly \subseteq Idx
    /\ \A e \in DOMAIN poly : poly[e] # 0
    /\ unk \subseteq Modes
    /\ measured \subseteq Modes
    /\ nops \in 0 .. MaxOps
    /\ \A e \in DOMAIN poly, f \in DOMAIN poly : Total(e) = Total(f)

----------------------------------------------------------------------------
(* Two fresh Fock engines are given the same program, operation by         *)
(* operation: the same preparations, beamsplitters and count measurements  *)
(* with the same select arguments.  Each engine samples on its own.  The   *)
(* program text is kept in circ as above.                                  *)

\* the engine after Fock(n) | q[i]
EngFock(e, n, i) == [e EXCEPT !.poly = Prepare(e.poly, i, n)]

\* the engine after BSgate() | (q[0], q[1])
EngBS(e) == [e EXCEPT !.poly = BSPoly(e.poly)]

\* the engine after a count measurement of mode i that gave k; a k of zero
\* probability stops its run with the error
EngMeasure(e, i, k) ==
    IF k \in Outcomes(e.poly, i)
    THEN [e EXCEPT !.poly = Collapse(e.poly, i, k), !.val[i] = IntVal(k)]
    ELSE [e EXCEPT !.ok = FALSE]

TwinCanOp ==
    /\ twin.a.ok /\ twin.b.ok
    /\ twin.n < MaxOps
    /\ circ.stage = "off" => twin.n < MaxFree

TwinFrame ==
    UNCHANGED <<backend, phase, error, poly, unk, val, samples, measured, nops, lastOp, progs>>

\* prog = sf.Program(2); eng = sf.Engine("fock", ...), twice
TwinNew ==
    /\ twin' = FreshTwin
    /\ circ' = FreshCirc
    /\ TwinFrame

TwinFock(n, i) ==
    /\ TwinCanOp
    /\ n < CutoffDim
    /\ DefiniteIn(twin.a.poly, i) /\ DefiniteIn(twin.b.poly, i)
    /\ twin' = [twin EXCEPT !.a = EngFock(@, n, i), !.b = EngFock(@, n, i), !.n = @ + 1]
    /\ circ' = CircFock(circ, i, n)
    /\ TwinFrame

TwinBS ==
    /\ TwinCanOp
    /\ twin' = [twin EXCEPT !.a = EngBS(@), !.b = EngBS(@), !.n = @ + 1]
    /\ circ' = CircBS(circ)
    /\ TwinFrame

\* MeasureFock() | q[i]: each engine samples its own outcome
TwinMeasureSample(i) ==
    /\ TwinCanOp
    /\ \E ka \in Outcomes(twin.a.poly, i), kb \in Outcomes(twin.b.poly, i) :
          twin' = [twin EXCEPT !.a = EngMeasure(@, i, ka), !.b = EngMeasure(@, i, kb),
                               !.free = @ \cup {i}, !.rnd = TRUE, !.n = @ + 1]
    /\ circ' = CircMeasure(circ, i, -1)
    /\ TwinFrame

\* mutant of TwinMeasureSelect: the select argument is ignored
TwinMeasureSelectSampled(i, s) ==
    /\ TwinCanOp
    /\ \E ka \in Outcomes(twin.a.poly, i), kb \in Outcomes(twin.b.poly, i) :
          twin' = [twin EXCEPT !.a = EngMeasure(@, i, ka), !.b = EngMeasure(@, i, kb),
                               !.free = @ \ {i}, !.n = @ + 1]
    /\ circ' = CircMeasure(circ, i, s)
    /\ TwinFrame

\* MeasureFock(select=s) | q[i]: both engines are conditioned on s
TwinMeasureSelect(i, s) ==
    /\ TwinCanOp
    /\ twin' = [twin EXCEPT !.a = EngMeasure(@, i, s), !.b = EngMeasure(@, i, s),
                            !.free = @ \ {i}, !.n = @ + 1]
    /\ circ' = IF twin'.a.ok /\ twin'.b.ok THEN CircMeasure(circ, i, s) ELSE circ
    /\ TwinFrame

NextTwin ==
    \/ TwinNew
    \/ \E n \in 0 .. MaxLoad, i \in Modes : TwinFock(n, i)
    \/ TwinBS
    \/ \E i \in Modes : TwinMeasureSample(i)
    \/ \E i \in Modes, s \in Counts : TwinMeasureSelect(i, s)

InitTwin == Init /\ backend = "fock"

SpecTwin == InitTwin /\ [][NextTwin]_vars

----------------------------------------------------------------------------
(* Program construction: prog = sf.Program(2), then the operations written *)
(* inside "with prog.context as q", each applied to subscripts of q.  The  *)
(* programs of a session are constructed one after the other, and a built  *)
(* program is handed to eng.run.                                           *)

\* the subscripts a program text may write: those of the register q and
\* MaxBeyond more
RegIdx == 0 .. (NumModes - 1 + MaxBeyond)

\* the operations of the count circuit
ProgKinds == {"Fock", "BSgate", "MeasureFock"}

\* the subscript tuples an operation of kind k is applied to
Selectors(k) ==
    IF k = "BSgate"
    THEN {ms \in RegIdx \X RegIdx : ms[1] # ms[2]}
    ELSE {<<i>> : i \in RegIdx}

\* the subscripts of ms that are no mode of the register
Beyond(ms) == {ms[x] : x \in 1 .. Len(ms)} \ Modes

\* every subscript of ms is a mode of the register
InRegister(ms) == Beyond(ms) = {}

\* constructing and running programs is followed apart from the engine
ProgFrame ==
    UNCHANGED <<backend, phase, error, poly, unk, val, samples, measured, nops, lastOp, circ, twin>>

\* prog = sf.Program(2); with prog.context as q: the programs before it have
\* been run, or their construction has stopped
ProgNew(p) ==
    /\ progs[p].state = "none"
    /\ \A r \in 1 .. (p - 1) : progs[r].state = "failed" \/ progs[r].ran
    /\ progs' = [progs EXCEPT ![p].state = "open"]
    /\ ProgFrame

\* an operation is appended whatever its subscripts
ProgAppendUnchecked(p, k, ms) ==
    /\ progs[p].state = "open"
    /\ Len(progs[p].ops) < MaxProgOps
    /\ progs' = [progs EXCEPT ![p].ops = Append(@, [kind |-> k, modes |-> ms])]
    /\ ProgFrame

\* Op | q[i] or Op | (q[i], q[j]) inside the context, i and j in the register
ProgAppend(p, k, ms) ==
    /\ progs[p].state = "open"
    /\ Len(progs[p].ops) < MaxProgOps
    /\ InRegister(ms)
    /\ progs' = [progs EXCEPT ![p].ops = Append(@, [kind |-> k, modes |-> ms])]
    /\ ProgFrame

\* the same with a subscript outside the register: the construction stops
\* with an error and leaves no program
ProgOutOfRange(p, k, ms) ==
    /\ progs[p].state = "open"
    /\ ~InRegister(ms)
    /\ progs' = [progs EXCEPT ![p] = [NoProg EXCEPT !.state = "failed", !.raised = Beyond(ms)]]
    /\ ProgFrame

\* the end of the with block
ProgBuilt(p) ==
    /\ progs[p].state = "open"
    /\ progs' = [progs EXCEPT ![p].state = "built"]
    /\ ProgFrame

\* eng.run(prog)
ProgRun(p) ==
    /\ progs[p].state = "built"
    /\ progs' = [progs EXCEPT ![p].ran = TRUE]
    /\ ProgFrame

NextProg ==
    \/ \E p \in 1 .. MaxProgs : ProgNew(p)
    \/ \E p \in 1 .. MaxProgs, k \in ProgKinds : \E ms \in Selectors(k) : ProgAppend(p, k, ms)
    \/ \E p \in 1 .. MaxProgs, k \in ProgKinds : \E ms \in Selectors(k) : ProgOutOfRange(p, k, ms)
    \/ \E p \in 1 .. MaxProgs : ProgBuilt(p)
    \/ \E p \in 1 .. MaxProgs : ProgRun(p)

InitProg == Init /\ backend = "fock"

SpecProg == InitProg /\ [][NextProg]_vars

----------------------------------------------------------------------------
(* Properties.                                                             *)

\* the engine has just executed one more operation of the program
OpStep == nops' = nops + 1

\* the circuit Fock(n) | q[0]; Fock(m) | q[1]; BSgate...; then measurements
InCircuit == circ.stage = "mixed"
LoadedTotal == circ.n[0] + circ.n[1]

\* C1: photon-number conservation.  With counts n and m loaded into modes 0
\* and 1, then beamsplitters, then a count measurement of each mode (in one
\* run or over two runs on the same engine), the two recorded counts sum to
\* n + m.
C1_Conservation ==
    (InCircuit /\ circ.seen = Modes)
        => /\ val[0].t = "int" /\ val[1].t = "int"
           /\ val[0].re + val[1].re = LoadedTotal

\* both modes were measured, mode 0 sampled to a count that is neither 0 nor
\* the total, after (2, 3) was loaded
C1_Witness ==
    /\ InCircuit /\ circ.seen = Modes /\ phase = "done"
    /\ circ.n[0] = 2 /\ circ.n[1] = 3
    /\ circ.sel[0] = -1 /\ circ.sel[1] = -1
    /\ val[0].re = 1 /\ val[1].re = 4

\* C2: a post-selected count measurement whose required outcome has zero
\* probability in the engine's state fails the run with the zero-probability
\* error and records nothing; a failed run never completes; so no circuit
\* completes with selected counts that do not sum to the loaded total.
C2_ZeroProbFails ==
    /\ [][(/\ OpStep
           /\ lastOp'.kind = "MeasureFock"
           /\ lastOp'.arg # NoVal
           /\ lastOp'.arg.re \notin Outcomes(poly, lastOp'.mode))
          => (/\ phase' = "failed"
              /\ error' = "zeroprob"
              /\ val' = val /\ samples' = samples /\ poly' = poly)]_vars
    /\ [][phase = "failed" => phase' \in {"failed", "idle"}]_vars
    /\ [](InCircuit =>
            /\ \A i \in circ.seen : circ.sel[i] # -1 => circ.sel[i] <= LoadedTotal
            /\ (circ.seen = Modes /\ circ.sel[0] # -1 /\ circ.sel[1] # -1)
                  => circ.sel[0] + circ.sel[1] = LoadedTotal)

\* select=[1, 2] on the outputs of (2, 3): the second selection fails
C2_Witness ==
    /\ phase = "failed" /\ error = "zeroprob"
    /\ InCircuit /\ circ.n[0] = 2 /\ circ.n[1] = 3
    /\ circ.seen = {0} /\ circ.sel[0] = 1
    /\ lastOp.kind = "MeasureFock" /\ lastOp.mode = 1 /\ lastOp.arg = IntVal(2)

MeasureKinds == {"MeasureFock", "MeasureHomodyne", "MeasureHeterodyne"}

\* C3: a post-selected measurement that succeeds records exactly the required
\* outcome, and the other mode is conditioned on it: after (2, 3) is loaded
\* and mixed, mode 0 measured with select=0 and mode 1 measured without
\* selection, the recorded counts are 0 and 5.
C3_PostSelection ==
    /\ (lastOp.kind \in MeasureKinds /\ lastOp.status = "ok" /\ lastOp.arg # NoVal)
          => val[lastOp.mode] = lastOp.arg
    /\ (InCircuit /\ circ.seen = Modes /\ circ.n[0] = 2 /\ circ.n[1] = 3
          /\ circ.sel[0] = 0 /\ circ.sel[1] = -1)
          => val[0] = IntVal(0) /\ val[1] = IntVal(5)

\* the notebook's run: both measurements in one program, which completed
C3_Witness ==
    /\ InCircuit /\ circ.seen = Modes /\ circ.n[0] = 2 /\ circ.n[1] = 3
    /\ circ.sel[0] = 0 /\ circ.sel[1] = -1
    /\ phase = "done" /\ measured = Modes
    /\ samples = <<[mode |-> 0, v |-> IntVal(0)], [mode |-> 1, v |-> IntVal(5)]>>

\* C4: a run starts from the state the previous run on the engine left, so
\* after a first run that measured only mode 0 a later run that measures
\* mode 1 records n + m minus the first count; after a reset the engine is
\* in the base state, and so is the start of the next run.
C4_SequentialComposition ==
    /\ [][(phase \in {"idle", "done"} /\ phase' = "running")
          => (poly' = poly /\ unk' = unk /\ val' = val)]_vars
    /\ [][(phase # "idle" /\ phase' = "idle")
          => (poly' = Vacuum /\ unk' = {} /\ val' = [i \in Modes |-> NoVal])]_vars
    /\ [](nops = 0 => poly = Vacuum /\ unk = {})
    /\ []((InCircuit /\ circ.seen = Modes /\ measured = {1})
            => val[1].re = LoadedTotal - val[0].re)

\* the second run has completed, having measured mode 1 only
C4_Witness ==
    /\ InCircuit /\ circ.seen = Modes /\ measured = {1} /\ phase = "done"
    /\ circ.n[0] = 2 /\ circ.n[1] = 3
    /\ val[0] = IntVal(3) /\ val[1] = IntVal(2)

\* the entry of the current Results for mode i
SampleOf(i) == {samples[x].v : x \in {y \in DOMAIN samples : samples[y].mode = i}}

\* a gate whose parameter is q[ref].par has been resolved
ParResolved == lastOp.kind \in Gates /\ lastOp.status \in {"resolved", "applied"}

\* C5: the parameter a gate is applied with is the value recorded for the
\* referenced mode (squared, for q[r].par ** 2): it equals the mode's
\* measured value and, when the mode was measured in this run, its entry in
\* the Results; the gate is applied only after, and with, the resolved value.
C5_ParameterIsRecordedValue ==
    /\ [](ParResolved =>
            /\ val[lastOp.ref] # NoVal
            /\ lastOp.fn = "id" => lastOp.arg = val[lastOp.ref]
            /\ lastOp.fn = "sq" =>
                  /\ lastOp.arg.re = val[lastOp.ref].re * val[lastOp.ref].re
                                     - val[lastOp.ref].im * val[lastOp.ref].im
                  /\ lastOp.arg.im = 2 * val[lastOp.ref].re * val[lastOp.ref].im
            /\ lastOp.ref \in measured => SampleOf(lastOp.ref) = {val[lastOp.ref]})
    /\ [][(lastOp'.status = "applied" /\ lastOp.status # "applied")
          => (lastOp.status = "resolved" /\ lastOp' = [lastOp EXCEPT !.status = "applied"])]_vars
    /\ [][(OpStep /\ lastOp'.kind \in Gates)
          => (poly' = poly /\ unk' = unk)]_vars

\* MeasureFock() | q[0] gave 2; Dgate(q[0].par ** 2) | q[1] was applied with 4
C5_Witness ==
    /\ lastOp.kind = "Dgate" /\ lastOp.status = "applied"
    /\ lastOp.ref = 0 /\ lastOp.mode = 1 /\ lastOp.fn = "sq"
    /\ val[0] = IntVal(2) /\ lastOp.arg = IntVal(4)
    /\ 0 \in measured /\ 1 \in unk

\* C6: a gate whose parameter references a mode that has not been measured
\* when the gate is reached fails the run with the resolution error and is
\* not applied; an applied gate references a mode measured before it, in
\* this run or in an earlier run on the engine.
C6_UnmeasuredReference ==
    /\ [][(OpStep /\ lastOp'.kind \in Gates /\ val[lastOp'.ref] = NoVal)
          => (/\ phase' = "failed"
              /\ error' = "resolution"
              /\ lastOp'.status = "failed"
              /\ poly' = poly /\ unk' = unk)]_vars
    /\ [][lastOp.status = "failed" => lastOp'.status # "applied"]_vars
    /\ [](ParResolved => val[lastOp.ref] # NoVal)

\* the run failed on a gate that references mode 1, which a later operation
\* of the program might have measured; mode 0 had been measured
C6_Witness ==
    /\ phase = "failed" /\ error = "resolution"
    /\ lastOp.kind = "Dgate" /\ lastOp.ref = 1 /\ lastOp.status = "failed"
    /\ val[1] = NoVal /\ val[0] # NoVal

\* mode i is in the vacuum
VacuumAt(i) == i \notin unk /\ Outcomes(poly, i) \subseteq {0}

C8_ResultsByMode ==
    phase \in {"running", "done"} =>
        /\ SampleModes(samples) = measured
        /\ \A x \in DOMAIN samples, y \in DOMAIN samples :
              x < y => samples[x].mode < samples[y].mode
        /\ \A x \in DOMAIN samples : samples[x].v = val[samples[x].mode]
        /\ measured = {0} => Len(samples) = 1 /\ samples[1].mode = 0
        /\ measured = {1} => Len(samples) = 1 /\ samples[1] = [mode |-> 1, v |-> val[1]]

\* a run that measured mode 1 only, on an engine whose earlier run measured
\* mode 0: its Results hold the one entry of mode 1
C8_Witness ==
    /\ phase = "done" /\ measured = {1}
    /\ val[0] = IntVal(3) /\ val[1] = IntVal(2)
    /\ samples = <<[mode |-> 1, v |-> IntVal(2)]>>

\* C9: a measured value of integer or real type is taken as the parameter of
\* every gate; a complex value is taken by Dgate, Sgate and S2gate only: a
\* gate that takes real parameters only fails the run with the type error
\* and is not applied.
C9_ParameterTypes ==
    /\ [][(OpStep /\ lastOp'.kind \in Gates /\ val[lastOp'.ref] # NoVal)
          => /\ val[lastOp'.ref].t \in {"int", "real"} => lastOp'.status = "resolved"
             /\ (val[lastOp'.ref].t = "complex"
                    /\ lastOp'.kind \in {"Dgate", "Sgate", "S2gate"})
                  => lastOp'.status = "resolved"
             /\ (val[lastOp'.ref].t = "complex"
                    /\ lastOp'.kind \notin {"Dgate", "Sgate", "S2gate"})
                  => (/\ phase' = "failed" /\ error' = "type"
                      /\ lastOp'.status = "failed"
                      /\ poly' = poly /\ unk' = unk)]_vars
    /\ [](ParResolved =>
            (val[lastOp.ref].t = "complex" => lastOp.kind \in {"Dgate", "Sgate", "S2gate"}))

\* MeasureHeterodyne() | q[0]; Rgate(q[0].par) | q[1] failed
C9_Witness ==
    /\ phase = "failed" /\ error = "type"
    /\ lastOp.kind = "Rgate" /\ lastOp.ref = 0 /\ lastOp.mode = 1
    /\ val[0].t = "complex"

\* both twin runs are still running
TwinOk == twin.a.ok /\ twin.b.ok

\* C10: determinism of conditioning.  Two fresh engines given the same
\* program with the same select arguments agree on every measurement that
\* the conditioning determines: they are in the same state with the same
\* records while every measurement so far was post-selected, and, in the
\* two-mode circuit as soon as one output mode has been measured with a
\* select argument, whether the other is measured before or after it; the
\* recorded values of a mode differ only where its measurement was sampled.
C10_Determinism ==
    /\ (TwinOk /\ ~twin.rnd) => twin.a = twin.b
    /\ (TwinOk /\ InCircuit /\ circ.seen = Modes /\ \E i \in Modes : circ.sel[i] # -1)
          => twin.a = twin.b
    /\ (TwinOk /\ InCircuit /\ \E i \in circ.seen : circ.sel[i] # -1)
          => Cardinality(Outcomes(twin.a.poly, 0) \cup Outcomes(twin.b.poly, 0)) = 1
             /\ Cardinality(Outcomes(twin.a.poly, 1) \cup Outcomes(twin.b.poly, 1)) = 1
    /\ \A i \in Modes : twin.a.val[i] # twin.b.val[i] => (i \in twin.free \/ ~TwinOk)

\* both engines ran Fock(2), Fock(3), BSgate, MeasureFock(select=0) | q[0],
\* MeasureFock() | q[1], and both sampled 5 for mode 1
C10_Witness ==
    /\ TwinOk /\ InCircuit /\ circ.seen = Modes
    /\ circ.n[0] = 2 /\ circ.n[1] = 3 /\ circ.sel[0] = 0 /\ circ.sel[1] = -1
    /\ twin.free = {1}
    /\ twin.a.val[1] = IntVal(5) /\ twin.b.val[1] = IntVal(5)

\* every operation of program p is applied to modes of the register
OpsInRegister(p) == \A x \in 1 .. Len(progs[p].ops) : InRegister(progs[p].ops[x].modes)

\* C11: a program whose text applies an operation to a subscript outside
\* the declared modes is never built: its construction stops with an error
\* at that operation.  So every built program holds only operations on
\* modes of the register.  Its operation list never changes once it is
\* built, neither when it is run nor when another program is constructed.
C11_ProgramConstruction ==
    /\ [](\A p \in 1 .. MaxProgs :
            /\ progs[p].state \in {"open", "built"}
                 => OpsInRegister(p) /\ progs[p].raised = {}
            /\ progs[p].state = "failed"
                 => progs[p].raised # {} /\ progs[p].raised \cap Modes = {})
    /\ [][\A p \in 1 .. MaxProgs :
            progs[p].state = "built"
              => /\ progs'[p].state = "built"
                 /\ progs'[p].ops = progs[p].ops]_vars

\* the first program stopped at an operation on q[2]; the second was built
\* as MeasureFock() | q[1], and has been run
C11_Witness ==
    /\ progs[1].state = "failed" /\ progs[1].raised = {NumModes}
    /\ progs[2].state = "built" /\ progs[2].ran
    /\ progs[2].ops = <<[kind |-> "MeasureFock", modes |-> <<1>>]>>

====
